---- MODULE Spec2Model ----
(***************************************************************************)
(* A model of generate.py, the map generator for the "chaine des Puys".    *)
(*                                                                         *)
(* Coordinates are integers (canvas units); a distance is kept as its      *)
(* square and compared with a threshold through SqrtGT / SqrtLT, which is  *)
(* what math.sqrt followed by a comparison decides.  Quotients (the        *)
(* barycenter, the Scaler's output, the colour percentage) are exact       *)
(* fractions.                                                              *)
(***************************************************************************)
EXTENDS Integers, Sequences, FiniteSets, TLC

(* ------------------------------ bounds -------------------------------- *)
\* longest boolean sequence given to compress_sequence on its own
MaxLen == 6
\* most segments (stretches of near or far nodes) of a generated long line
MaxRuns == 4
\* most contour ways in a multi-way input
MaxWays == 2
\* most nodes given to the Scaler
MaxNodes == 3
\* largest raw coordinate given to the Scaler
MaxCoord == 2
\* most points of interest in the visit summary
MaxPuys == 3

(* ------------------------- program constants -------------------------- *)
MIN_ELEVATION == 300
MID_ELEVATION == 900
MAX_ELEVATION == 1200
\* Way.color: first/last distance above which a line gets no fill
OPEN_DISTANCE == 200
\* Way.stroke: elevations that are multiples of this get the heavy stroke
STROKE_MODULUS == 50
\* Way.sub: a close run must be longer than this
RUN_THRESHOLD == 100
\* Way.sub: random.randint(0, 20), both ends included
RAND_MAX == 20
\* Scaler.__init__: target=1000
DEFAULT_TARGET == 1000
\* SvgBuilder.build: department.nodes[1:-1:10]
OUTLINE_STEP == 10
\* argparse defaults of -d, -c, -n
DEFAULT_D == 30
DEFAULT_C == 200
DEFAULT_N == 120

VARIABLES
    pc,             \* position in the operation being run
    raw,            \* compress_sequence: its argument
    sequences,      \* compress_sequence: its result
    args,           \* SvgBuilder's three thresholds
    contour_ways,   \* the list of contour Ways
    puy_nodes,      \* the list of PuyNodes
    department,     \* the region boundary (a Way)
    way_i,          \* _select_ways: index of the loop variable `way`
    runs,           \* Way.sub: compress_sequence(close_nodes)
    run_i,          \* Way.sub: index of the loop over runs
    current_index,  \* Way.sub: current_index
    yielded,        \* the Way a generator has just yielded (<<>>: none)
    emitted,        \* history: where each yielded Way came from
    svg_data,       \* build: the elements written so far
    placed_nodes,   \* build: placed_nodes
    viewport,       \* build: the viewBox written (<<>>: none)
    scaler,         \* a Scaler
    nodes,          \* the nodes a Scaler is used on
    visited,        \* main: visited
    visit_list,     \* main: the checklist entries
    html,           \* main: the values written into the page template
    color_way,      \* Way.color: self
    color           \* Way.color: its result

vars == <<pc, raw, sequences, args, contour_ways, puy_nodes, department, way_i,
          runs, run_i, current_index, yielded, emitted, svg_data, placed_nodes,
          viewport, scaler, nodes, visited, visit_list, html, color_way,
          color>>

rleVars    == <<raw, sequences>>
inputVars  == <<args, puy_nodes, department>>
subVars    == <<runs, run_i, current_index>>
buildVars  == <<svg_data, placed_nodes, viewport>>
scalerVars == <<scaler, nodes>>
mainVars   == <<visited, visit_list, html>>
colorVars  == <<color_way, color>>

None == <<>>

(* ------------------------------- Node --------------------------------- *)
Node(x, y) == [x |-> x, y |-> y]

\* Node.distance, squared
distance2(a, b) == (a.x - b.x) * (a.x - b.x) + (a.y - b.y) * (a.y - b.y)

\* math.sqrt(d2) > t  and  math.sqrt(d2) < t
SqrtGT(d2, t) == t < 0 \/ d2 > t * t
SqrtLT(d2, t) == t > 0 /\ d2 < t * t

SetMin(S) == CHOOSE m \in S : \A n \in S : m <= n
SetMax(S) == CHOOSE m \in S : \A n \in S : m >= n

\* list_distance, squared: min({target.distance(node) for node in references})
list_distance2(target, references) ==
    SetMin({distance2(target, references[i]) : i \in DOMAIN references})

(* ------------------------- compress_sequence -------------------------- *)
\* the body of `for symbol in raw[1:]`
compress_body(st, symbol) ==
    IF symbol = st.start_symbol
    THEN [st EXCEPT !.length = st.length + 1]
    ELSE [start_symbol |-> symbol, length |-> 1,
          sequences |-> Append(st.sequences, <<st.start_symbol, st.length>>)]

\* the for loop over raw[lo..hi], in order.  (The range is halved, and the
\* first half evaluated before the second, only to keep the evaluation
\* shallow on lines of several hundred nodes; length >= 1 always holds.)
RECURSIVE compress_for(_, _, _, _)
compress_for(symbols, lo, hi, st) ==
    IF lo > hi THEN st
    ELSE IF lo = hi THEN compress_body(st, symbols[lo])
    ELSE LET mid  == (lo + hi) \div 2
             left == compress_for(symbols, lo, mid, st)
         IN  IF left.length >= 1
             THEN compress_for(symbols, mid + 1, hi, left)
             ELSE left

\* the result drops the run still open when the loop ends: `sequences` is
\* returned as it stands after the loop
compress_sequence(symbols) ==
    compress_for(symbols, 2, Len(symbols),
                 [start_symbol |-> symbols[1], length |-> 1,
                  sequences |-> <<>>]).sequences

(* ----------------------------- fractions ------------------------------ *)
RECURSIVE Gcd(_, _)
Gcd(a, b) == IF b = 0 THEN a ELSE Gcd(b, a % b)
Abs(a) == IF a < 0 THEN -a ELSE a

\* the fraction n/d (d # 0), in lowest terms with a positive denominator
Frac(n, d) ==
    LET g == Gcd(Abs(n), Abs(d))
        s == IF d < 0 THEN -1 ELSE 1
    IN  [num |-> s * (n \div g), den |-> s * (d \div g)]
F(n) == [num |-> n, den |-> 1]
\* sums are taken over the least common denominator
Lcm(a, b) == (a \div Gcd(a, b)) * b
FAdd(a, b) ==
    LET l == Lcm(a.den, b.den)
    IN  Frac(a.num * (l \div a.den) + b.num * (l \div b.den), l)
FSub(a, b) == FAdd(a, [num |-> -b.num, den |-> b.den])
FMul(a, b) == Frac(a.num * b.num, a.den * b.den)
FDiv(a, b) == Frac(a.num * b.den, a.den * b.num)
FLE(a, b) == a.num * b.den <= b.num * a.den
FLT(a, b) == a.num * b.den < b.num * a.den
FMinOf(S) == CHOOSE m \in S : \A n \in S : FLE(m, n)
FMaxOf(S) == CHOOSE m \in S : \A n \in S : FLE(n, m)
FClamp01(a) == IF FLT(a, F(0)) THEN F(0) ELSE IF FLT(F(1), a) THEN F(1) ELSE a

(* -------------------------------- Way --------------------------------- *)
Way(elevation, nodeList, is_subway) ==
    [elevation |-> elevation, nodes |-> nodeList, is_subway |-> is_subway]

\* the last element, nodes[-1]
Last(s) == s[Len(s)]

\* s[l:r] for 0 <= l: the two ends are clipped to the list
Slice(s, l, r) ==
    LET Clip(k) == IF k < 0 THEN 0 ELSE IF k > Len(s) THEN Len(s) ELSE k
    IN  SubSeq(s, Clip(l) + 1, Clip(r))

RECURSIVE SumRange(_, _, _, _)
SumRange(s, axis, lo, hi) ==
    IF lo > hi THEN 0
    ELSE IF lo = hi THEN (IF axis = "x" THEN s[lo].x ELSE s[lo].y)
    ELSE LET mid == (lo + hi) \div 2
         IN  SumRange(s, axis, lo, mid) + SumRange(s, axis, mid + 1, hi)

\* Way.barycenter: sum(self.nodes) / len(self.nodes), a node whose two
\* coordinates are fractions over len(self.nodes), left unreduced
barycenter(way) ==
    [x |-> [num |-> SumRange(way.nodes, "x", 1, Len(way.nodes)), den |-> Len(way.nodes)],
     y |-> [num |-> SumRange(way.nodes, "y", 1, Len(way.nodes)), den |-> Len(way.nodes)]]

\* Node.distance, squared, from a barycenter b (over n) to a node p:
\* (b.x - p.x)^2 + (b.y - p.y)^2, as a fraction over n^2
fdistance2(b, p) ==
    LET dx == b.x.num - b.x.den * p.x
        dy == b.y.num - b.y.den * p.y
    IN  [num |-> dx * dx + dy * dy, den |-> b.x.den * b.y.den]

\* list_distance(way.barycenter(), references), squared: the least of
\* fractions over the same denominator
flist_distance2(target, references) ==
    [num |-> SetMin({fdistance2(target, references[i]).num : i \in DOMAIN references}),
     den |-> target.x.den * target.y.den]

\* math.sqrt(d2) > t, for a fraction d2
FSqrtGT(d2, t) == t < 0 \/ d2.num > t * t * d2.den

\* the interpolation of Way.color: percent * end + (1 - percent) * start
Mix(percent, start, end) ==
    FAdd(FMul(percent, F(end)), FMul(FSub(F(1), percent), F(start)))

Transparent == [name |-> "transparent", r |-> F(0), g |-> F(0), b |-> F(0)]
Rgba(r, g, b) == [name |-> "rgba", r |-> r, g |-> g, b |-> b]

\* Percent with a plausible fault: the percentage is not clamped
PercentUnclamped(elevation, lo, hi) == Frac(elevation - lo, hi - lo)

\* the percentage of Way.color in the band [lo, hi]
Percent(elevation, lo, hi) == FClamp01(Frac(elevation - lo, hi - lo))

\* Way.color
WayColor(way) ==
    IF way.is_subway THEN Transparent
    ELSE IF SqrtGT(distance2(way.nodes[1], Last(way.nodes)), OPEN_DISTANCE)
    THEN Transparent
    ELSE IF way.elevation > MID_ELEVATION
    THEN LET percent == Percent(way.elevation, MID_ELEVATION, MAX_ELEVATION)
         IN  Rgba(Mix(percent, 27, 87), Mix(percent, 126, 53), Mix(percent, 14, 0))
    ELSE LET percent == Percent(way.elevation, MIN_ELEVATION, MID_ELEVATION)
         IN  Rgba(Mix(percent, 255, 27), Mix(percent, 255, 126), Mix(percent, 255, 14))

\* Way.stroke
WayStroke(way) == IF way.elevation % STROKE_MODULUS = 0 THEN ".6" ELSE ".3"

\* Way.sub: close_nodes
close_nodes(way, target_nodes, threshold) ==
    [i \in 1..Len(way.nodes) |->
        SqrtLT(list_distance2(way.nodes[i], target_nodes), threshold)]

\* Qualifies with a plausible fault: a run of exactly 100 nodes is taken too
QualifiesAtLeast(run) == run[1] /\ run[2] >= RUN_THRESHOLD

\* Way.sub: `if is_close and length > 100`
Qualifies(run) == run[1] /\ run[2] > RUN_THRESHOLD

\* the values random.randint(0, 20) can return
RandInt == 0..RAND_MAX

\* right_offset with a plausible fault: the draw is added instead of taken off
right_offset_added(index, length, b) == index + length + b

\* Way.sub: the two offsets of the slice, a and b being the two random draws
left_offset(index, a) == index + a
right_offset(index, length, b) == index + length - b

\* Way.sub: the subway built from the run of `length` nodes at `index`
Subway(way, index, length, a, b) ==
    Way(way.elevation,
        Slice(way.nodes, left_offset(index, a), right_offset(index, length, b)),
        TRUE)

(* ------------------------------- Scaler ------------------------------- *)
\* Scaler.__init__
NewScaler(target) ==
    [target |-> target, min_x |-> None, max_x |-> None,
     min_y |-> None, max_y |-> None, aspect |-> None]

\* Scaler.fit raises ZeroDivisionError: the box has no height
FitFails(nodeSet) == \A m, n \in nodeSet : m.y = n.y

\* Scaler.fit, on nodes with fractional coordinates
Fit(sc, nodeSet) ==
    LET min_x == FMinOf({n.x : n \in nodeSet})
        max_x == FMaxOf({n.x : n \in nodeSet})
        min_y == FMinOf({n.y : n \in nodeSet})
        max_y == FMaxOf({n.y : n \in nodeSet})
    IN  [sc EXCEPT !.min_x = min_x, !.max_x = max_x,
                   !.min_y = min_y, !.max_y = max_y,
                   !.aspect = FDiv(FSub(max_x, min_x), FSub(max_y, min_y))]

\* Scaler.transform raises ZeroDivisionError: the box has no width (and the
\* aspect is then 0 as well)
TransformFails(sc) == sc.max_x = sc.min_x

\* TransformY with a plausible fault: the aspect ratio is forgotten
TransformYNoAspect(sc, y) ==
    FMul(FDiv(FSub(y, sc.min_y), FSub(sc.max_y, sc.min_y)), F(sc.target))

\* Scaler.transform: the new x and the new y of one node
TransformX(sc, x) ==
    FMul(FDiv(FSub(x, sc.min_x), FSub(sc.max_x, sc.min_x)), F(sc.target))
TransformY(sc, y) ==
    FDiv(FMul(FDiv(FSub(y, sc.min_y), FSub(sc.max_y, sc.min_y)), F(sc.target)),
         sc.aspect)

\* Scaler.transform, on a list of distinct node objects
Transform(sc, nodeList) ==
    [i \in DOMAIN nodeList |->
        [nodeList[i] EXCEPT !.x = TransformX(sc, nodeList[i].x),
                            !.y = TransformY(sc, nodeList[i].y)]]

(* --------------------------- _select_ways ----------------------------- *)
\* list.sort(key=lambda way: way.elevation): stable, ascending
RECURSIVE InsertByElevation(_, _)
InsertByElevation(sorted, way) ==
    IF sorted = <<>> THEN <<way>>
    ELSE IF Last(sorted).elevation <= way.elevation THEN Append(sorted, way)
    ELSE Append(InsertByElevation(SubSeq(sorted, 1, Len(sorted) - 1), way),
                Last(sorted))

RECURSIVE SortPrefix(_, _)
SortPrefix(ways, n) ==
    IF n = 0 THEN <<>> ELSE InsertByElevation(SortPrefix(ways, n - 1), ways[n])

\* SortByElevation with a plausible fault: the list is left in its input order
SortNone(ways) == ways

SortByElevation(ways) == SortPrefix(ways, Len(ways))

\* Rejected with a plausible fault: the closure test is >= instead of >
RejectedClosureGE(way, puys, a) ==
    IF FSqrtGT(flist_distance2(barycenter(way), puys), a.way_distance_threshold)
    THEN TRUE
    ELSE distance2(way.nodes[1], Last(way.nodes))
           >= a.way_closure_threshold * a.way_closure_threshold

\* the if / elif of _select_ways that sets `rejected`
Rejected(way, puys, a) ==
    IF FSqrtGT(flist_distance2(barycenter(way), puys), a.way_distance_threshold)
    THEN TRUE
    ELSE SqrtGT(distance2(way.nodes[1], Last(way.nodes)), a.way_closure_threshold)

\* history entry of a yielded Way: the generator that yielded it ("accept":
\* _select_ways itself, "sub": Way.sub), the index of the contour way it comes
\* from and, for a subway, the run (start index, length) it was cut from
Origin(via, i, w, start, length) ==
    [via |-> via, origin |-> i, is_subway |-> w.is_subway,
     elevation |-> w.elevation, start |-> start, length |-> length]

\* first call of next(): contour_ways.sort(...), then the loop starts
SelectSort ==
    /\ pc = "select"
    /\ contour_ways' = SortByElevation(contour_ways)
    /\ way_i' = 1
    /\ pc' = "way"
    /\ UNCHANGED <<rleVars, inputVars, subVars, yielded, emitted, buildVars,
                   scalerVars, mainVars, colorVars>>

\* `if not rejected: yield way`
SelectAccept ==
    /\ pc = "way"
    /\ way_i <= Len(contour_ways)
    /\ ~Rejected(contour_ways[way_i], puy_nodes, args)
    /\ yielded' = contour_ways[way_i]
    /\ emitted' = Append(emitted, Origin("accept", way_i, contour_ways[way_i], 0,
                                                Len(contour_ways[way_i].nodes)))
    /\ pc' = "yielded"
    /\ UNCHANGED <<rleVars, inputVars, contour_ways, way_i, subVars, buildVars,
                   scalerVars, mainVars, colorVars>>

\* `else: for subway in way.sub(...)`: Way.sub runs up to its loop
SelectReject ==
    /\ pc = "way"
    /\ way_i <= Len(contour_ways)
    /\ Rejected(contour_ways[way_i], puy_nodes, args)
    /\ runs' = compress_sequence(close_nodes(contour_ways[way_i], puy_nodes,
                                             args.way_node_distance_threshold))
    /\ run_i' = 1
    /\ current_index' = 0
    /\ pc' = "sub"
    /\ UNCHANGED <<rleVars, inputVars, contour_ways, way_i, yielded, emitted,
                   buildVars, scalerVars, mainVars, colorVars>>

\* Way.sub: an iteration that yields nothing
SubSkip ==
    /\ pc = "sub"
    /\ run_i <= Len(runs)
    /\ ~Qualifies(runs[run_i])
    /\ current_index' = current_index + runs[run_i][2]
    /\ run_i' = run_i + 1
    /\ UNCHANGED <<pc, rleVars, inputVars, contour_ways, way_i, runs, yielded,
                   emitted, buildVars, scalerVars, mainVars, colorVars>>

\* Way.sub: an iteration that yields a subway, up to the yield
SubYield ==
    /\ pc = "sub"
    /\ run_i <= Len(runs)
    /\ Qualifies(runs[run_i])
    /\ \E a, b \in RandInt :
         yielded' = Subway(contour_ways[way_i], current_index,
                           runs[run_i][2], a, b)
    /\ emitted' = Append(emitted, Origin("sub", way_i, yielded', current_index,
                                         runs[run_i][2]))
    /\ pc' = "yielded"
    /\ UNCHANGED <<rleVars, inputVars, contour_ways, way_i, subVars, buildVars,
                   scalerVars, mainVars, colorVars>>

\* Way.sub is exhausted: _select_ways goes to its next way
SubDone ==
    /\ pc = "sub"
    /\ run_i > Len(runs)
    /\ way_i' = way_i + 1
    /\ pc' = "way"
    /\ UNCHANGED <<rleVars, inputVars, contour_ways, subVars, yielded, emitted,
                   buildVars, scalerVars, mainVars, colorVars>>

\* _select_ways is exhausted
SelectDone ==
    /\ pc = "way"
    /\ way_i > Len(contour_ways)
    /\ pc' = "exhausted"
    /\ UNCHANGED <<rleVars, inputVars, contour_ways, way_i, subVars, yielded,
                   emitted, buildVars, scalerVars, mainVars, colorVars>>

\* the generators are resumed after a yield: Way.sub at
\* `current_index += length`, _select_ways at its next way
ResumeGenerators ==
    /\ pc = "yielded"
    /\ yielded' = None
    /\ IF yielded.is_subway
       THEN /\ current_index' = current_index + runs[run_i][2]
            /\ run_i' = run_i + 1
            /\ pc' = "sub"
            /\ UNCHANGED way_i
       ELSE /\ way_i' = way_i + 1
            /\ pc' = "way"
            /\ UNCHANGED <<run_i, current_index>>
    /\ UNCHANGED <<rleVars, inputVars, contour_ways, runs, emitted, scalerVars,
                   mainVars, colorVars>>

\* a consumer that only takes the next Way
Resume == ResumeGenerators /\ UNCHANGED buildVars

(* ------------------------------- build -------------------------------- *)
\* an element of the scene; d holds the nodes written, in order (an integer
\* coordinate is written as itself by "%.2f" and "%f")
Element(tag, fill, stroke, width, d, text) ==
    [tag |-> tag, fill |-> fill, stroke |-> stroke, width |-> width,
     d |-> d, text |-> text]

\* department.nodes[0], then department.nodes[1:-1:10]
OutlineNodes(dept) ==
    LET n     == Len(dept.nodes)
        count == IF n - 2 < 1 THEN 0 ELSE ((n - 3) \div OUTLINE_STEP) + 1
    IN  <<dept.nodes[1]>> \o [k \in 1..count |-> dept.nodes[2 + OUTLINE_STEP * (k - 1)]]

\* the <path> of a yielded Way
PathOf(way) ==
    Element("path", WayColor(way),
            IF way.is_subway THEN "url(#Gradient1)" ELSE "black",
            WayStroke(way),
            <<IF way.is_subway THEN way.nodes[1] ELSE Last(way.nodes)>> \o way.nodes,
            <<>>)

\* PuyNode.color
PuyColor(puy) ==
    IF puy.visited THEN Rgba(F(50), F(50), F(255)) ELSE Rgba(F(255), F(50), F(50))

\* PuyNode.full_label: the elevation, when there is one, is part of the label
\* (an elevation is None or the one-element tuple of its value)
full_label(puy) ==
    IF puy.elevation # None THEN <<puy.label, puy.elevation[1]>> ELSE <<puy.label>>

\* the <g class="puy"> of a point of interest
CircleOf(puy) ==
    Element("circle", PuyColor(puy), "black", "", <<Node(puy.x, puy.y)>>,
            full_label(puy))

\* PlacedWay with a plausible fault: only the first node of the Way is placed
PlacedWayFirst(placed, way) == placed \cup {way.nodes[1]}

\* placed_nodes after `placed_nodes.add(node)` for every node of a Way
PlacedWay(placed, way) == placed \cup {way.nodes[i] : i \in DOMAIN way.nodes}

\* placed_nodes after `placed_nodes.add(node)` for every point of interest
PlacedPuys(placed, puys) ==
    placed \cup {Node(puys[i].x, puys[i].y) : i \in DOMAIN puys}

FNode(n) == [x |-> F(n.x), y |-> F(n.y)]

\* build, up to its loop over _select_ways: the outline of the department
BuildOutline ==
    /\ pc = "build"
    /\ placed_nodes' = {}
    /\ svg_data' = <<Element("path", Transparent, "grey", "1",
                             OutlineNodes(department), <<>>)>>
    /\ pc' = "select"
    /\ UNCHANGED <<rleVars, inputVars, contour_ways, way_i, subVars, yielded,
                   emitted, viewport, scalerVars, mainVars, colorVars>>

\* the body of `for way in self._select_ways(...)`, then the next Way is asked
Draw ==
    /\ ResumeGenerators
    /\ svg_data' = Append(svg_data, PathOf(yielded))
    /\ placed_nodes' = PlacedWay(placed_nodes, yielded)
    /\ UNCHANGED viewport

\* the scene after the loop over puy_nodes
WithCircles(svg, puys) == svg \o [i \in DOMAIN puys |-> CircleOf(puys[i])]

\* the viewBox: Scaler().fit(placed_nodes), then its min_x, min_y, width, height
ViewBox(placed) ==
    LET sc == Fit(NewScaler(DEFAULT_TARGET), {FNode(n) : n \in placed})
    IN  [min_x |-> sc.min_x, min_y |-> sc.min_y,
         width |-> FSub(sc.max_x, sc.min_x), height |-> FSub(sc.max_y, sc.min_y)]

\* build, after its loop over _select_ways
BuildFinish ==
    /\ pc = "exhausted"
    /\ ~FitFails(PlacedPuys(placed_nodes, puy_nodes))
    /\ svg_data' = WithCircles(svg_data, puy_nodes)
    /\ placed_nodes' = PlacedPuys(placed_nodes, puy_nodes)
    /\ viewport' = ViewBox(placed_nodes')
    /\ pc' = "done"
    /\ UNCHANGED <<rleVars, inputVars, contour_ways, way_i, subVars, yielded,
                   emitted, scalerVars, mainVars, colorVars>>

\* build, after its loop over _select_ways, when Scaler.fit raises
BuildError ==
    /\ pc = "exhausted"
    /\ FitFails(PlacedPuys(placed_nodes, puy_nodes))
    /\ svg_data' = WithCircles(svg_data, puy_nodes)
    /\ placed_nodes' = PlacedPuys(placed_nodes, puy_nodes)
    /\ pc' = "error"
    /\ UNCHANGED <<rleVars, inputVars, contour_ways, way_i, subVars, yielded,
                   emitted, viewport, scalerVars, mainVars, colorVars>>

(* -------------------------------- main -------------------------------- *)
\* PuyNode
Puy(x, y, label, isVisited, elevation) ==
    [x |-> x, y |-> y, label |-> label, visited |-> isVisited,
     elevation |-> elevation]

\* list.sort(key=lambda node: node.y): stable, ascending
RECURSIVE InsertByY(_, _)
InsertByY(sorted, puy) ==
    IF sorted = <<>> THEN <<puy>>
    ELSE IF Last(sorted).y <= puy.y THEN Append(sorted, puy)
    ELSE Append(InsertByY(SubSeq(sorted, 1, Len(sorted) - 1), puy), Last(sorted))

RECURSIVE SortPrefixByY(_, _)
SortPrefixByY(puys, n) ==
    IF n = 0 THEN <<>> ELSE InsertByY(SortPrefixByY(puys, n - 1), puys[n])

SortByY(puys) == SortPrefixByY(puys, Len(puys))

\* len({p for p in puy_nodes if p.visited}): the members of the set are told
\* apart by Node.__hash__ / Node.__eq__, that is by (x, y)
CountVisited(puys) ==
    Cardinality({Node(puys[i].x, puys[i].y) : i \in {j \in DOMAIN puys : puys[j].visited}})

\* main: puy_nodes.sort(...) and the visited count
MainCount ==
    /\ pc = "main"
    /\ puy_nodes' = SortByY(puy_nodes)
    /\ visited' = CountVisited(puy_nodes')
    /\ pc' = "counted"
    /\ UNCHANGED <<rleVars, args, department, contour_ways, way_i, subVars,
                   yielded, emitted, buildVars, scalerVars, visit_list, html,
                   colorVars>>

\* main: the loop that writes the checklist
MainList ==
    /\ pc = "counted"
    /\ visit_list' = [i \in DOMAIN puy_nodes |->
                        [visited |-> puy_nodes[i].visited,
                         label |-> puy_nodes[i].label]]
    /\ pc' = "listed"
    /\ UNCHANGED <<rleVars, inputVars, contour_ways, way_i, subVars, yielded,
                   emitted, buildVars, scalerVars, visited, html, colorVars>>

\* main: HTML_TEMPLATE.format(...)
MainWrite ==
    /\ pc = "listed"
    /\ html' = [visit_current |-> visited,
                visit_total |-> Len(puy_nodes),
                visit_percent |-> Frac(100 * visited, Len(puy_nodes)),
                visit_list |-> visit_list]
    /\ pc' = "written"
    /\ UNCHANGED <<rleVars, inputVars, contour_ways, way_i, subVars, yielded,
                   emitted, buildVars, scalerVars, visited, visit_list,
                   colorVars>>

(* ------------------- operations run on their own ---------------------- *)
\* compress_sequence(raw)
Compress ==
    /\ pc = "compress"
    /\ sequences' = compress_sequence(raw)
    /\ pc' = "compressed"
    /\ UNCHANGED <<raw, inputVars, contour_ways, way_i, subVars, yielded,
                   emitted, buildVars, scalerVars, mainVars, colorVars>>

\* way.color()
Color ==
    /\ pc = "color"
    /\ color' = WayColor(color_way)
    /\ pc' = "colored"
    /\ UNCHANGED <<rleVars, inputVars, contour_ways, way_i, subVars, yielded,
                   emitted, buildVars, scalerVars, mainVars, color_way>>

NodeSet(nodeList) == {nodeList[i] : i \in DOMAIN nodeList}

\* scaler.fit(nodes)
ScalerFit ==
    /\ pc = "fit"
    /\ ~FitFails(NodeSet(nodes))
    /\ scaler' = Fit(scaler, NodeSet(nodes))
    /\ pc' = "fitted"
    /\ UNCHANGED <<rleVars, inputVars, contour_ways, way_i, subVars, yielded,
                   emitted, buildVars, nodes, mainVars, colorVars>>

\* scaler.fit(nodes) raises ZeroDivisionError
ScalerFitError ==
    /\ pc = "fit"
    /\ FitFails(NodeSet(nodes))
    /\ pc' = "error"
    /\ UNCHANGED <<rleVars, inputVars, contour_ways, way_i, subVars, yielded,
                   emitted, buildVars, scalerVars, mainVars, colorVars>>

\* scaler.transform(nodes)
ScalerTransform ==
    /\ pc = "fitted"
    /\ ~TransformFails(scaler)
    /\ nodes' = Transform(scaler, nodes)
    /\ pc' = "transformed"
    /\ UNCHANGED <<rleVars, inputVars, contour_ways, way_i, subVars, yielded,
                   emitted, buildVars, scaler, mainVars, colorVars>>

\* scaler.transform(nodes) raises ZeroDivisionError
ScalerTransformError ==
    /\ pc = "fitted"
    /\ TransformFails(scaler)
    /\ pc' = "error"
    /\ UNCHANGED <<rleVars, inputVars, contour_ways, way_i, subVars, yielded,
                   emitted, buildVars, scalerVars, mainVars, colorVars>>

(* ------------------------------- inputs ------------------------------- *)
SeqsUpTo(S, n) == UNION {[1..k -> S] : k \in 1..n}

\* the lists of up to n pairwise different members of S
DistinctSeqsUpTo(S, n) ==
    {s \in SeqsUpTo(S, n) : \A i, j \in DOMAIN s : i # j => s[i] # s[j]}

DefaultArgs ==
    [way_distance_threshold |-> DEFAULT_D,
     way_closure_threshold |-> DEFAULT_C,
     way_node_distance_threshold |-> DEFAULT_N]

\* the defaults, and -c 0, -d 0
ArgsChoices ==
    {DefaultArgs,
     [DefaultArgs EXCEPT !.way_closure_threshold = 0],
     [DefaultArgs EXCEPT !.way_distance_threshold = 0]}

PuyA == Puy(0, 0, "A", TRUE, <<1465>>)
PuyB == Puy(0, 200, "B", FALSE, None)
PuyC == Puy(0, 20, "C", FALSE, None)

\* A long line is made of segments, each a stretch of distinct nodes that
\* zigzags either near PuyA (closer than the default -n, and with a
\* barycenter farther than the default -d) or far from every puy.  The
\* segments are near and far in turn: a near one has lens[k] nodes (100 or
\* 101), a far one has a single node.
Lengths == {RUN_THRESHOLD, RUN_THRESHOLD + 1}

SegmentsOf(first, lens) ==
    [k \in DOMAIN lens |->
        LET close == ((k % 2) = 1) = first
        IN  [close |-> close,
             len |-> IF close THEN lens[k] ELSE 1]]

SegmentNodes(seg, k) ==
    [j \in 1..seg.len |->
        Node((IF seg.close THEN 40 ELSE 240) + ((j - 1) % 11),
             10 * (k - 1) + ((j - 1) \div 11))]

RECURSIVE LineNodes(_, _)
LineNodes(segs, k) ==
    IF k = 0 THEN <<>> ELSE LineNodes(segs, k - 1) \o SegmentNodes(segs[k], k)

LongLine(segs, elevation) == Way(elevation, LineNodes(segs, Len(segs)), FALSE)

Repeat(node, n) == [j \in 1..n |-> node]

\* small shapes: a closed ring around PuyA, an open arc next to it, a closed
\* ring far from every puy
Ring(elevation) ==
    Way(elevation, <<Node(-5, -5), Node(5, -5), Node(5, 5), Node(-5, 5), Node(-5, -5)>>, FALSE)
Arc(elevation) ==
    Way(elevation, <<Node(-5, 0), Node(0, 5), Node(5, 0)>>, FALSE)
FarRing(elevation) ==
    Way(elevation, <<Node(500, 500), Node(510, 500), Node(510, 510), Node(500, 500)>>, FALSE)

\* long shapes whose nodes stand on two spots, one near PuyA and one far
NearSpot == Node(40, 0)
FarSpot == Node(240, 0)
\* two long close runs, each followed by a far node
TwoRuns(elevation) ==
    Way(elevation,
        Repeat(NearSpot, RUN_THRESHOLD + 1) \o <<FarSpot>>
        \o Repeat(NearSpot, RUN_THRESHOLD + 1) \o <<FarSpot>>, FALSE)
\* a far node, one long close run, a far node
OneRun(elevation) ==
    Way(elevation,
        <<FarSpot>> \o Repeat(NearSpot, RUN_THRESHOLD + 1) \o <<FarSpot>>, FALSE)
\* a long far run followed by a near node
FarRun(elevation) ==
    Way(elevation, Repeat(FarSpot, RUN_THRESHOLD + 1) \o <<NearSpot>>, FALSE)

SelectCatalog ==
    {Ring(300), Ring(350), Arc(300), FarRing(350), TwoRuns(320), FarRun(300)}

BuildCatalog == {Ring(300), Ring(1000), FarRing(350), OneRun(350)}

\* the boundary: 13 vertices, of which build draws the 1st, the 2nd and the
\* 12th.  Inside: all between the two puys; Outside: the first one far away;
\* Skipped: a far vertex that build does not draw
DeptInside == Way(None, [i \in 1..13 |-> Node(0, 10 * i)], FALSE)
DeptOutside == Way(None, [i \in 1..13 |-> Node(IF i = 1 THEN -900 ELSE 0, 10 * i)], FALSE)
DeptSkipped == Way(None, [i \in 1..13 |-> Node(IF i = 5 THEN -900 ELSE 0, 10 * i)], FALSE)

(* --------------------------- specifications --------------------------- *)
RleIdle    == raw = <<>> /\ sequences = <<>>
InputIdle  == args = DefaultArgs /\ puy_nodes = <<>> /\ department = None
SelectIdle == /\ contour_ways = <<>> /\ way_i = 0 /\ runs = <<>> /\ run_i = 0
              /\ current_index = 0 /\ yielded = None /\ emitted = <<>>
BuildIdle  == svg_data = <<>> /\ placed_nodes = {} /\ viewport = None
ScalerIdle == scaler = None /\ nodes = <<>>
MainIdle   == visited = 0 /\ visit_list = <<>> /\ html = None
ColorIdle  == color_way = None /\ color = None

\* compress_sequence on every non-empty boolean sequence up to MaxLen
InitRLE ==
    /\ pc = "compress"
    /\ raw \in SeqsUpTo(BOOLEAN, MaxLen)
    /\ sequences = <<>>
    /\ InputIdle /\ SelectIdle /\ BuildIdle /\ ScalerIdle /\ MainIdle /\ ColorIdle

NextRLE == Compress

SpecRLE == InitRLE /\ [][NextRLE]_vars

\* _select_ways, asked for its Ways one after the other: either one long line
\* of up to MaxRuns segments under the default thresholds, or up to MaxWays
\* different ways of the catalog, in any order, under one of the threshold
\* choices
InitSelect ==
    /\ pc = "select"
    /\ puy_nodes = <<PuyA, PuyC>>
    /\ department = None
    /\ \/ /\ args = DefaultArgs
          /\ \E first \in BOOLEAN, lens \in SeqsUpTo(Lengths, MaxRuns) :
                contour_ways = <<LongLine(SegmentsOf(first, lens), 350)>>
       \/ /\ args \in ArgsChoices
          /\ contour_ways \in DistinctSeqsUpTo(SelectCatalog, MaxWays)
    /\ way_i = 0 /\ runs = <<>> /\ run_i = 0 /\ current_index = 0
    /\ yielded = None /\ emitted = <<>>
    /\ RleIdle /\ BuildIdle /\ ScalerIdle /\ MainIdle /\ ColorIdle

NextSelect ==
    \/ SelectSort \/ SelectAccept \/ SelectReject \/ SelectDone
    \/ SubSkip \/ SubYield \/ SubDone
    \/ Resume

SpecSelect == InitSelect /\ [][NextSelect]_vars

\* SvgBuilder.build on up to MaxWays different ways of its catalog, in any
\* order, with one or two puys and one of three boundaries
InitBuild ==
    /\ pc = "build"
    /\ args = DefaultArgs
    /\ puy_nodes \in {<<PuyA, PuyB>>, <<PuyA>>}
    /\ department \in {DeptInside, DeptOutside, DeptSkipped}
    /\ contour_ways \in DistinctSeqsUpTo(BuildCatalog, MaxWays)
    /\ way_i = 0 /\ runs = <<>> /\ run_i = 0 /\ current_index = 0
    /\ yielded = None /\ emitted = <<>>
    /\ RleIdle /\ BuildIdle /\ ScalerIdle /\ MainIdle /\ ColorIdle

NextBuild ==
    \/ BuildOutline
    \/ SelectSort \/ SelectAccept \/ SelectReject \/ SelectDone
    \/ SubSkip \/ SubYield \/ SubDone
    \/ Draw
    \/ BuildFinish \/ BuildError

SpecBuild == InitBuild /\ [][NextBuild]_vars

\* Scaler.fit then Scaler.transform on the same nodes
Targets == {DEFAULT_TARGET, 3}

InitScaler ==
    /\ pc = "fit"
    /\ \E target \in Targets : scaler = NewScaler(target)
    /\ nodes \in SeqsUpTo({FNode(Node(x, y)) : x, y \in 0..MaxCoord}, MaxNodes)
    /\ RleIdle /\ InputIdle /\ SelectIdle /\ BuildIdle /\ MainIdle /\ ColorIdle

NextScaler ==
    ScalerFit \/ ScalerFitError \/ ScalerTransform \/ ScalerTransformError

SpecScaler == InitScaler /\ [][NextScaler]_vars

\* the visit summary of main
PuyChoices ==
    {Puy(0, y, label, v, None) : y \in {0, 1}, label \in {"A", "B"}, v \in BOOLEAN}

InitMain ==
    /\ pc = "main"
    /\ puy_nodes \in SeqsUpTo(PuyChoices, MaxPuys)
    /\ args = DefaultArgs /\ department = None
    /\ RleIdle /\ SelectIdle /\ BuildIdle /\ ScalerIdle /\ MainIdle /\ ColorIdle

NextMain == MainCount \/ MainList \/ MainWrite

SpecMain == InitMain /\ [][NextMain]_vars

\* Way.color on lines of every kind
ColorElevations == {0, 300, 450, 900, 1000, 1200, 1500}
ColorEnds == {Node(0, 0), Node(200, 0), Node(201, 0), Node(120, 160), Node(121, 160)}

InitColor ==
    /\ pc = "color"
    /\ \E e \in ColorElevations, last \in ColorEnds, sub \in BOOLEAN :
          color_way = Way(e, <<Node(0, 0), Node(7, 7), last>>, sub)
    /\ color = None
    /\ RleIdle /\ InputIdle /\ SelectIdle /\ BuildIdle /\ ScalerIdle /\ MainIdle

NextColor == Color

SpecColor == InitColor /\ [][NextColor]_vars

(* ------------------------ what the claims use ------------------------- *)
\* The maximal runs of equal consecutive values of a sequence, stated from
\* the positions where the value changes (not from compress_sequence).
RunStarts(s) == {i \in DOMAIN s : i = 1 \/ s[i] # s[i - 1]}
RunEnd(s, i) == SetMin({j \in i..Len(s) : j = Len(s) \/ s[j + 1] # s[j]})
MaximalRunSet(s) ==
    {[symbol |-> s[i], start |-> i - 1, length |-> RunEnd(s, i) - i + 1] :
        i \in RunStarts(s)}
InOrder(S) ==
    [k \in 1..Cardinality(S) |->
        CHOOSE r \in S : Cardinality({q \in S : q.start < r.start}) = k - 1]
MaximalRuns(s) == InOrder(MaximalRunSet(s))

RECURSIVE SumLengths(_, _)
SumLengths(pairs, n) == IF n = 0 THEN 0 ELSE SumLengths(pairs, n - 1) + pairs[n][2]

\* the nodes of a way that are close to a puy: strictly nearer than the node
\* threshold to at least one of them
IsClose(node, puys, threshold) ==
    \E i \in DOMAIN puys :
        threshold > 0 /\ distance2(node, puys[i]) < threshold * threshold
CloseMask(way) ==
    SubSeq([i \in DOMAIN way.nodes |->
               IsClose(way.nodes[i], puy_nodes, args.way_node_distance_threshold)],
           1, Len(way.nodes))

\* the maximal runs of close nodes of a way that are longer than RUN_THRESHOLD
LongCloseRuns(way) ==
    {r \in MaximalRunSet(CloseMask(way)) : r.symbol /\ r.length > RUN_THRESHOLD}

\* the nodes of `sub` are a slice of the nodes of `way` inside the run r
SliceInside(sub, way, r) ==
    /\ Len(sub.nodes) >= 1
    /\ \E off \in 0..(r.length - Len(sub.nodes)) :
          /\ sub.nodes[1] = way.nodes[r.start + off + 1]
          /\ sub.nodes = SubSeq(way.nodes, r.start + off + 1,
                                r.start + off + Len(sub.nodes))

\* a Way has just been yielded by Way.sub / by _select_ways itself
SubwayYielded == pc = "yielded" /\ Last(emitted).via = "sub"
WayAccepted == pc = "yielded" /\ Last(emitted).via = "accept"

\* the contour ways _select_ways is done with
Processed ==
    IF pc = "exhausted" \/ pc = "done" \/ pc = "error" THEN DOMAIN contour_ways
    ELSE IF pc = "select" \/ pc = "build" THEN {}
    ELSE 1..(way_i - 1)

EmittedOf(i) == {k \in DOMAIN emitted : emitted[k].origin = i}

(* ------------------------------- claims ------------------------------- *)
\* C1: compress_sequence returns, in order, the maximal runs of equal
\* consecutive values as (value, length) pairs, and the lengths sum to the
\* length of the input.
C1_CompressIsRunLengthEncoding ==
    pc = "compressed" =>
        /\ sequences = [k \in DOMAIN MaximalRuns(raw) |->
                          <<MaximalRuns(raw)[k].symbol, MaximalRuns(raw)[k].length>>]
        /\ SumLengths(sequences, Len(sequences)) = Len(raw)

\* C2: every subway yielded by Way.sub is a slice of the parent's nodes inside
\* one maximal run of close nodes longer than 100, is marked is_subway and
\* has the parent's elevation (so none comes from a shorter close run or from
\* a run of far nodes).
C2_SubwayInsideLongCloseRun ==
    SubwayYielded =>
        /\ yielded.is_subway
        /\ yielded.elevation = contour_ways[way_i].elevation
        /\ \E r \in LongCloseRuns(contour_ways[way_i]) :
              SliceInside(yielded, contour_ways[way_i], r)

\* C2 witness: the second subway of one line has just been yielded
C2_Witness ==
    /\ SubwayYielded
    /\ Len(emitted) = 2
    /\ emitted[1].via = "sub" /\ emitted[1].origin = emitted[2].origin
    /\ Len(contour_ways) = 1

\* C3 (as claimed): a subway has strictly fewer nodes than the close run it
\* was cut from, whatever the two random offsets.
C3_SubwayShorterThanRun ==
    SubwayYielded =>
        \E r \in LongCloseRuns(contour_ways[way_i]) :
           /\ SliceInside(yielded, contour_ways[way_i], r)
           /\ Len(yielded.nodes) < r.length

\* C3 (amended): a subway has at most as many nodes as the close run it was
\* cut from; it has as many when both offsets are 0.
C3_SubwayAtMostRun ==
    SubwayYielded =>
        \E r \in LongCloseRuns(contour_ways[way_i]) :
           /\ SliceInside(yielded, contour_ways[way_i], r)
           /\ Len(yielded.nodes) <= r.length

\* C3 witness: a subway as long as its run (both offsets 0) on a line of
\* distinct nodes
C3_Witness ==
    /\ SubwayYielded
    /\ Len(yielded.nodes) = RUN_THRESHOLD + 1
    /\ Cardinality({contour_ways[way_i].nodes[i] : i \in DOMAIN contour_ways[way_i].nodes})
         = Len(contour_ways[way_i].nodes)

\* The rejection rule as the claim words it.  The barycenter is too far:
\* (sx/n - px)^2 + (sy/n - py)^2 > d^2 for every puy (px, py), compared after
\* multiplying by n^2.  The line is open: its ends are farther apart than c.
ClaimedTooFar(way) ==
    LET n  == Len(way.nodes)
        sx == SumRange(way.nodes, "x", 1, n)
        sy == SumRange(way.nodes, "y", 1, n)
        d  == args.way_distance_threshold
    IN  \A i \in DOMAIN puy_nodes :
           \/ d < 0
           \/ (sx - n * puy_nodes[i].x) * (sx - n * puy_nodes[i].x)
              + (sy - n * puy_nodes[i].y) * (sy - n * puy_nodes[i].y)
                > d * d * n * n
ClaimedOpen(way) ==
    \/ args.way_closure_threshold < 0
    \/ distance2(way.nodes[1], way.nodes[Len(way.nodes)])
         > args.way_closure_threshold * args.way_closure_threshold
ClaimedRejected(way) == ClaimedTooFar(way) \/ ClaimedOpen(way)

\* C4: a contour line is rejected exactly when its barycenter is too far
\* from every puy or its ends are too far apart; a line that is not rejected
\* is yielded once, as itself; a closed line with a close enough barycenter
\* is never rejected (closure threshold >= 0).
C4_RejectedExactlyWhen ==
    /\ \A i \in Processed :
          IF ClaimedRejected(contour_ways[i])
          THEN \A k \in EmittedOf(i) : emitted[k].via = "sub"
          ELSE /\ Cardinality(EmittedOf(i)) = 1
               /\ \A k \in EmittedOf(i) : emitted[k].via = "accept"
    /\ WayAccepted =>
          /\ yielded = contour_ways[way_i]
          /\ ~ClaimedRejected(contour_ways[way_i])
    /\ \A i \in Processed :
          (/\ contour_ways[i].nodes[1] = Last(contour_ways[i].nodes)
           /\ args.way_closure_threshold >= 0
           /\ ~ClaimedTooFar(contour_ways[i]))
          => \E k \in EmittedOf(i) : emitted[k].via = "accept"

\* C4 witness: a closed ring has been yielded as itself with -c 0, after a
\* rejected line
C4_Witness ==
    /\ WayAccepted
    /\ args.way_closure_threshold = 0
    /\ yielded.nodes[1] = Last(yielded.nodes)
    /\ way_i = 2

\* C5: Scaler.fit then Scaler.transform on the same nodes (a box with a
\* width and a height) puts every x in [0, target] and every y in
\* [0, target/aspect], the least x and y on 0, the greatest x on target and
\* the greatest y on target/aspect, aspect being the width over the height of
\* the box the nodes had.
C5_FitTransformRange ==
    [][(pc = "fitted" /\ pc' = "transformed") =>
         LET min_x == FMinOf({nodes[i].x : i \in DOMAIN nodes})
             max_x == FMaxOf({nodes[i].x : i \in DOMAIN nodes})
             min_y == FMinOf({nodes[i].y : i \in DOMAIN nodes})
             max_y == FMaxOf({nodes[i].y : i \in DOMAIN nodes})
             aspect == FDiv(FSub(max_x, min_x), FSub(max_y, min_y))
             top_x == F(scaler.target)
             top_y == FDiv(F(scaler.target), aspect)
         IN  \A i \in DOMAIN nodes :
                /\ FLE(F(0), nodes'[i].x) /\ FLE(nodes'[i].x, top_x)
                /\ FLE(F(0), nodes'[i].y) /\ FLE(nodes'[i].y, top_y)
                /\ nodes[i].x = min_x => nodes'[i].x = F(0)
                /\ nodes[i].y = min_y => nodes'[i].y = F(0)
                /\ nodes[i].x = max_x => nodes'[i].x = top_x
                /\ nodes[i].y = max_y => nodes'[i].y = top_y]_vars

\* C5 witness: three nodes transformed with an aspect other than 1, one of
\* them strictly inside the box
C5_Witness ==
    /\ pc = "transformed"
    /\ Len(nodes) = 3
    /\ scaler.aspect # F(1)
    /\ \E i \in DOMAIN nodes :
          /\ FLT(F(0), nodes[i].x) /\ FLT(nodes[i].x, F(scaler.target))
          /\ FLT(F(0), nodes[i].y)
    /\ \E i \in DOMAIN nodes : nodes[i].y = FDiv(F(scaler.target), scaler.aspect)

\* C6: the visited count of the page summary is the number of checklist
\* entries written with the visited mark, and the total is the number of
\* checklist entries, also when several puys have the same coordinates.
C6_VisitedCountMatchesChecklist ==
    pc = "written" =>
        /\ html.visit_current =
              Cardinality({i \in DOMAIN html.visit_list : html.visit_list[i].visited})
        /\ html.visit_total = Len(html.visit_list)

\* the runs (start, length) of the subways yielded for contour way i, in the
\* order they were yielded
YieldedRuns(i) ==
    LET FromI(e) == e.origin = i
        es == SelectSeq(emitted, FromI)
    IN  [k \in DOMAIN es |-> <<es[k].start, es[k].length>>]

\* C7: for a rejected line, every maximal run of close nodes longer than 100
\* yields exactly one subway, wherever the run lies in the line, and the
\* subways come in the order of their runs.
C7_EveryLongCloseRunYieldsOneSubway ==
    \A i \in Processed :
        ClaimedRejected(contour_ways[i]) =>
            LET long == InOrder(LongCloseRuns(contour_ways[i]))
            IN  YieldedRuns(i) = [k \in DOMAIN long |-> <<long[k].start, long[k].length>>]

\* C8: the Ways come out of _select_ways in ascending elevation, whatever the
\* order of contour_ways: the list is sorted before the loop, every Way
\* yielded has the elevation of the contour way it comes from, and the Ways
\* of one contour way come out together, in the place of that way.
C8_YieldedInAscendingElevation ==
    /\ pc # "select" =>
          \A i, j \in DOMAIN contour_ways :
             i < j => contour_ways[i].elevation <= contour_ways[j].elevation
    /\ \A j, k \in DOMAIN emitted :
          j < k => /\ emitted[j].elevation <= emitted[k].elevation
                   /\ emitted[j].origin <= emitted[k].origin
    /\ \A k \in DOMAIN emitted :
          emitted[k].elevation = contour_ways[emitted[k].origin].elevation
    /\ WayAccepted => yielded = contour_ways[way_i]

\* C8 witness: two subways of a line at 320 m, then an accepted line at 350 m
C8_Witness ==
    /\ pc = "exhausted"
    /\ Len(emitted) = 3
    /\ emitted[1].via = "sub" /\ emitted[2].via = "sub"
    /\ emitted[1].origin = emitted[2].origin
    /\ emitted[3].via = "accept"
    /\ emitted[3].elevation > emitted[2].elevation

\* the points written in a set of elements
DrawnPoints(elements) == UNION {{e.d[i] : i \in DOMAIN e.d} : e \in elements}

\* the viewBox vb is the bounding box of the points S
BoundingBox(S, vb) ==
    /\ \A p \in S :
          /\ FLE(vb.min_x, F(p.x)) /\ FLE(F(p.x), FAdd(vb.min_x, vb.width))
          /\ FLE(vb.min_y, F(p.y)) /\ FLE(F(p.y), FAdd(vb.min_y, vb.height))
    /\ \E p \in S : F(p.x) = vb.min_x
    /\ \E p \in S : F(p.x) = FAdd(vb.min_x, vb.width)
    /\ \E p \in S : F(p.y) = vb.min_y
    /\ \E p \in S : F(p.y) = FAdd(vb.min_y, vb.height)

\* C9 (as claimed): the viewBox is the bounding box of all the points drawn:
\* the vertices of the outline, the nodes of the contour paths, the puys.
C9_ViewportBoundsAllDrawn ==
    pc = "done" =>
        BoundingBox(DrawnPoints({svg_data[k] : k \in DOMAIN svg_data}), viewport)

\* C9 (amended): the viewBox is the bounding box of the nodes of the contour
\* paths and of the puys; the outline of the department is left out of it.
C9_ViewportBoundsWaysAndPuys ==
    pc = "done" =>
        BoundingBox(DrawnPoints({svg_data[k] : k \in 2..Len(svg_data)}), viewport)

\* C9 witness: a scene with a filled path, a subway and an outline that leaves
\* the viewBox
C9_Witness ==
    /\ pc = "done"
    /\ department = DeptOutside
    /\ \E k \in DOMAIN svg_data : svg_data[k].stroke = "url(#Gradient1)"
    /\ \E k \in DOMAIN svg_data : svg_data[k].stroke = "black" /\ svg_data[k].tag = "path"

\* the channel of a colour at elevation e in the band [lo, hi], between the
\* anchors start (at lo and below) and end (at hi and above)
ExpectedChannel(e, lo, hi, start, end) ==
    LET c == IF e < lo THEN lo ELSE IF e > hi THEN hi ELSE e
    IN  Frac(start * (hi - lo) + (c - lo) * (end - start), hi - lo)

\* C10: Way.color is "transparent" exactly for a subway or a line whose ends
\* are more than 200 apart; otherwise it is the rgba colour interpolated
\* from the elevation, the percentage clamped to [0, 1].
C10_ColorRule ==
    pc = "colored" =>
        LET w == color_way
            e == w.elevation
            open == (w.nodes[1].x - w.nodes[Len(w.nodes)].x) * (w.nodes[1].x - w.nodes[Len(w.nodes)].x)
                    + (w.nodes[1].y - w.nodes[Len(w.nodes)].y) * (w.nodes[1].y - w.nodes[Len(w.nodes)].y)
                      > 200 * 200
        IN  /\ (color.name = "transparent") <=> (w.is_subway \/ open)
            /\ color.name # "transparent" =>
                  IF e > 900
                  THEN color = [name |-> "rgba",
                                r |-> ExpectedChannel(e, 900, 1200, 27, 87),
                                g |-> ExpectedChannel(e, 900, 1200, 126, 53),
                                b |-> ExpectedChannel(e, 900, 1200, 14, 0)]
                  ELSE color = [name |-> "rgba",
                                r |-> ExpectedChannel(e, 300, 900, 255, 27),
                                g |-> ExpectedChannel(e, 300, 900, 255, 126),
                                b |-> ExpectedChannel(e, 300, 900, 255, 14)]

\* C10 witness: a closed-enough line above the highest anchor gets the last
\* anchor colour
C10_Witness ==
    /\ pc = "colored"
    /\ color_way.elevation = 1500
    /\ color = [name |-> "rgba", r |-> F(87), g |-> F(53), b |-> F(0)]
    /\ color_way.nodes[3] = Node(120, 160)

====
